---- MODULE Spec2Model ----
(***************************************************************************)
(* Model of the margin-cleaning pipeline of arabic-pdf-editor:             *)
(*   image_cleaner.py  - content bounds, margin text detection, the        *)
(*                       rectangles to whiten (find_areas_to_clean)        *)
(*   pdf_processor.py  - the page loop of process_pdf and the recentering  *)
(*                       of center_page_content                            *)
(*                                                                         *)
(* A page raster is held by what the OpenCV calls extract from it: its     *)
(* size, the bounding boxes of the external contours of the closed and     *)
(* dilated ink (with the horizontal projection of each box), and the ink   *)
(* blobs the margin analysis finds (with their fill ratio and what the     *)
(* OCR engine answers on them).  Rectangles are <<x0, y0, x1, y1>>.        *)
(***************************************************************************)
EXTENDS Integers, Sequences, FiniteSets, TLC

(***************************************************************************)
(* Program constants                                                       *)
(***************************************************************************)
FALLBACK_INSET == 50
CONTENT_PADDING == 8
MIN_CONTENT_AREA == 2000
MIN_CONTENT_W == 50
MIN_CONTENT_H == 20
MAX_CONTENT_ASPECT == 30
MARGIN_TOLERANCE == 5
MIN_REGION_SIDE == 10
MIN_TEXT_AREA == 100
MAX_TEXT_AREA == 50000
MIN_TEXT_SIDE == 10
MAX_TEXT_ASPECT == 15
MIN_DENSITY_PCT == 3
MAX_DENSITY_PCT == 70
TEXT_PADDING == 5
MIN_BLOCK_H == 20
MIN_BLOCK_W == 50
CENTER_TOLERANCE == 5
POINTS_PER_INCH == 72

(***************************************************************************)
(* Bounds of the model                                                     *)
(***************************************************************************)
MaxBlobs == 2
MaxPages == 2
MaxRuns == 2

(***************************************************************************)
(* Small helpers                                                           *)
(***************************************************************************)
Max(a, b) == IF a >= b THEN a ELSE b
Min(a, b) == IF a <= b THEN a ELSE b
Abs(a) == IF a < 0 THEN -a ELSE a

RECURSIVE Concat(_)
\* the concatenation of a sequence of sequences (list.extend in a loop)
Concat(ss) == IF ss = <<>> THEN <<>> ELSE Head(ss) \o Concat(Tail(ss))

Range(s) == {s[i] : i \in DOMAIN s}

\* Rectangles overlap with positive area
Overlaps(a, b) ==
    /\ Max(a[1], b[1]) < Min(a[3], b[3])
    /\ Max(a[2], b[2]) < Min(a[4], b[4])

\* Rectangle a lies inside rectangle b
Inside(a, b) == a[1] >= b[1] /\ a[3] <= b[3] /\ a[2] >= b[2] /\ a[4] <= b[4]

(***************************************************************************)
(* has_arabic_or_number: the OCR answer on a candidate is a record         *)
(* [raises, text]; text is the recognised string as a sequence of          *)
(* character classes "alnum", "punct", "space".                            *)
(***************************************************************************)
RECURSIVE Strip(_)
Strip(text) ==
    IF text = <<>> THEN <<>>
    ELSE IF Head(text) = "space" THEN Strip(Tail(text))
    ELSE IF text[Len(text)] = "space" THEN Strip(SubSeq(text, 1, Len(text) - 1))
    ELSE text

has_arabic_or_number_unsafe(ocr_available, ocr) ==
    IF ~ocr_available THEN FALSE
    ELSE IF ocr.raises THEN FALSE
    ELSE LET text == Strip(ocr.text)
             cleaned == SelectSeq(text, LAMBDA c : c = "alnum")
         IN  IF Len(text) > 0 THEN Len(cleaned) > 0 ELSE FALSE

has_arabic_or_number(ocr_available, ocr) ==
    IF ~ocr_available THEN TRUE
    ELSE IF ocr.raises THEN TRUE
    ELSE LET text == Strip(ocr.text)
             cleaned == SelectSeq(text, LAMBDA c : c = "alnum")
         IN  IF Len(text) > 0 THEN Len(cleaned) > 0 ELSE FALSE

(***************************************************************************)
(* is_text_block: roi = [height, width, h_proj], h_proj[i] the number of   *)
(* ink pixels (darker than 200) of row i.                                  *)
(***************************************************************************)
CountLines_rows(text_rows) == Cardinality({i \in DOMAIN text_rows : text_rows[i]})

\* line_count after the loop over text_rows: the loop's flag in_line at row i
\* is text_rows[i - 1] (false at the first row), so the loop counts the rows
\* that are text and whose previous row is not
CountLines(text_rows) ==
    Cardinality({i \in DOMAIN text_rows :
                    text_rows[i] /\ (i = 1 \/ ~text_rows[i - 1])})

is_text_block(roi, min_line_count) ==
    IF roi.height * roi.width = 0 THEN FALSE
    ELSE IF roi.height < MIN_BLOCK_H \/ roi.width < MIN_BLOCK_W THEN FALSE
    ELSE LET text_rows == [i \in 1..roi.height |-> 10 * roi.h_proj[i] > roi.width]
         IN  CountLines(text_rows) >= min_line_count

(***************************************************************************)
(* find_text_content_bounds                                                *)
(***************************************************************************)
\* the filters of the contour loop; c = [x, y, w, h, h_proj]
ValidContour(c) ==
    /\ ~(c.w * c.h < MIN_CONTENT_AREA)
    /\ ~(c.w < MIN_CONTENT_W \/ c.h < MIN_CONTENT_H)
    /\ ~(c.w > MAX_CONTENT_ASPECT * c.h \/ 10 * c.w < c.h)
    /\ is_text_block([height |-> c.h, width |-> c.w, h_proj |-> c.h_proj], 1)

valid_boxes(image) ==
    {<<c.x, c.y, c.x + c.w, c.y + c.h>> :
        c \in {d \in Range(image.contours) : ValidContour(d)}}

SetMin(S) == CHOOSE m \in S : \A n \in S : m <= n
SetMax(S) == CHOOSE m \in S : \A n \in S : m >= n

Fallback_wholePage(width, height) == <<0, 0, width, height>>

\* the fallback rectangle returned when no box is valid
Fallback(width, height) ==
    <<FALLBACK_INSET, FALLBACK_INSET, width - FALLBACK_INSET, height - FALLBACK_INSET>>

PaddedUnion_unclamped(boxes, width, height) ==
    <<SetMin({b[1] : b \in boxes}) - CONTENT_PADDING,
      SetMin({b[2] : b \in boxes}) - CONTENT_PADDING,
      SetMax({b[3] : b \in boxes}) + CONTENT_PADDING,
      SetMax({b[4] : b \in boxes}) + CONTENT_PADDING>>

\* the bounds of all valid boxes, padded and clamped to the image
PaddedUnion(boxes, width, height) ==
    <<Max(0, SetMin({b[1] : b \in boxes}) - CONTENT_PADDING),
      Max(0, SetMin({b[2] : b \in boxes}) - CONTENT_PADDING),
      Min(width, SetMax({b[3] : b \in boxes}) + CONTENT_PADDING),
      Min(height, SetMax({b[4] : b \in boxes}) + CONTENT_PADDING)>>

find_text_content_bounds(image) ==
    LET boxes == valid_boxes(image)
    IN  IF boxes = {} THEN Fallback(image.width, image.height)
        ELSE PaddedUnion(boxes, image.width, image.height)

(***************************************************************************)
(* find_text_in_margin                                                     *)
(***************************************************************************)
\* a Python slice bound lo or hi on an axis of length n
SliceIndex(i, n) == IF i < 0 THEN Max(0, n + i) ELSE Min(i, n)

\* image[ry0:ry1, rx0:rx1] as the rectangle of the image it selects
Crop(image, region) ==
    <<SliceIndex(region[1], image.width), SliceIndex(region[2], image.height),
      SliceIndex(region[3], image.width), SliceIndex(region[4], image.height)>>

\* the bounding box, in the coordinates of the crop, of the part of a blob
\* that the crop shows
LocalContour(b, crop) ==
    LET ix0 == Max(b.x, crop[1])
        iy0 == Max(b.y, crop[2])
        ix1 == Min(b.x + b.w, crop[3])
        iy1 == Min(b.y + b.h, crop[4])
    IN  [x |-> ix0 - crop[1], y |-> iy0 - crop[2], w |-> ix1 - ix0, h |-> iy1 - iy0,
         density |-> b.density, ocr |-> b.ocr]

\* the filters of the contour loop up to the OCR call
CandidateFilters(c) ==
    /\ ~(c.w * c.h < MIN_TEXT_AREA \/ c.w * c.h > MAX_TEXT_AREA)
    /\ ~(c.w < MIN_TEXT_SIDE \/ c.h < MIN_TEXT_SIDE)
    /\ ~(c.w > MAX_TEXT_ASPECT * c.h \/ 20 * c.w < c.h)
    /\ ~(c.density < MIN_DENSITY_PCT \/ c.density > MAX_DENSITY_PCT)

PaddedBox_unclamped(c, region) ==
    <<region[1] + c.x - TEXT_PADDING,
      region[2] + c.y - TEXT_PADDING,
      region[1] + c.x + c.w + TEXT_PADDING,
      region[2] + c.y + c.h + TEXT_PADDING>>

\* the box appended for candidate c: padded, clamped to the region, and
\* translated to image coordinates
PaddedBox(c, region) ==
    <<region[1] + Max(0, c.x - TEXT_PADDING),
      region[2] + Max(0, c.y - TEXT_PADDING),
      region[1] + Min(region[3] - region[1], c.x + c.w + TEXT_PADDING),
      region[2] + Min(region[4] - region[2], c.y + c.h + TEXT_PADDING)>>

\* the contours found in the crop, in the order of the image's blobs
MarginContours(image, region) ==
    LET crop == Crop(image, region)
        seen == SelectSeq(image.blobs,
                    LAMBDA b : Overlaps(<<b.x, b.y, b.x + b.w, b.y + b.h>>, crop))
    IN  [i \in DOMAIN seen |-> LocalContour(seen[i], crop)]

find_text_in_margin(image, region, ocr_available) ==
    IF region[3] - region[1] < MIN_REGION_SIDE \/ region[4] - region[2] < MIN_REGION_SIDE
    THEN <<>>
    ELSE LET crop == Crop(image, region)
         IN  IF crop[3] <= crop[1] \/ crop[4] <= crop[2] THEN <<>>
             ELSE LET kept == SelectSeq(MarginContours(image, region),
                                  LAMBDA c : /\ CandidateFilters(c)
                                             /\ has_arabic_or_number(ocr_available, c.ocr))
                  IN  [i \in DOMAIN kept |-> PaddedBox(kept[i], region)]

(***************************************************************************)
(* find_areas_to_clean                                                     *)
(***************************************************************************)
\* the margin regions of content bounds b, as <<name, rectangle>>, in the
\* order the code appends them
MarginRegions_noTolerance(b, width, height) ==
    (IF b[2] > 0 THEN << <<"top", <<0, 0, width, b[2]>> >> >> ELSE <<>>)
    \o (IF b[4] < height THEN << <<"bottom", <<0, b[4], width, height>> >> >> ELSE <<>>)
    \o (IF b[1] > 0 THEN << <<"left", <<0, b[2], b[1], b[4]>> >> >> ELSE <<>>)
    \o (IF b[3] < width THEN << <<"right", <<b[3], b[2], width, b[4]>> >> >> ELSE <<>>)

MarginRegions_fullHeightSides(b, width, height) ==
    (IF b[2] > MARGIN_TOLERANCE
        THEN << <<"top", <<0, 0, width, b[2]>> >> >> ELSE <<>>)
    \o (IF b[4] < height - MARGIN_TOLERANCE
        THEN << <<"bottom", <<0, b[4], width, height>> >> >> ELSE <<>>)
    \o (IF b[1] > MARGIN_TOLERANCE
        THEN << <<"left", <<0, 0, b[1], height>> >> >> ELSE <<>>)
    \o (IF b[3] < width - MARGIN_TOLERANCE
        THEN << <<"right", <<b[3], 0, width, height>> >> >> ELSE <<>>)

MarginRegions(b, width, height) ==
    (IF b[2] > MARGIN_TOLERANCE
        THEN << <<"top", <<0, 0, width, b[2]>> >> >> ELSE <<>>)
    \o (IF b[4] < height - MARGIN_TOLERANCE
        THEN << <<"bottom", <<0, b[4], width, height>> >> >> ELSE <<>>)
    \o (IF b[1] > MARGIN_TOLERANCE
        THEN << <<"left", <<0, b[2], b[1], b[4]>> >> >> ELSE <<>>)
    \o (IF b[3] < width - MARGIN_TOLERANCE
        THEN << <<"right", <<b[3], b[2], width, b[4]>> >> >> ELSE <<>>)

\* protected_boxes: the boxes of every margin region, in order
ProtectedBoxes(image, regions, ocr_available) ==
    Concat([i \in DOMAIN regions |->
                find_text_in_margin(image, regions[i][2], ocr_available)])

RegionProtected_all(protected, r) == protected

\* region_protected: the protected boxes lying inside region r
RegionProtected(protected, r) ==
    SelectSeq(protected, LAMBDA box : box[1] >= r[1] /\ box[3] <= r[3]
                                      /\ box[2] >= r[2] /\ box[4] <= r[4])

HorizontalStrips_fullWidth(r, box) ==
    (IF box[1] > r[1] THEN << <<r[1], r[2], box[1], r[4]>> >> ELSE <<>>)
    \o (IF box[3] < r[3] THEN << <<box[3], r[2], r[3], r[4]>> >> ELSE <<>>)
    \o (IF box[2] > r[2] THEN << <<r[1], r[2], r[3], box[2]>> >> ELSE <<>>)
    \o (IF box[4] < r[4] THEN << <<r[1], box[4], r[3], r[4]>> >> ELSE <<>>)

\* the rectangles appended for one box of a top or bottom margin r
HorizontalStrips(r, box) ==
    (IF box[1] > r[1] THEN << <<r[1], r[2], box[1], r[4]>> >> ELSE <<>>)
    \o (IF box[3] < r[3] THEN << <<box[3], r[2], r[3], r[4]>> >> ELSE <<>>)
    \o (IF box[2] > r[2] THEN << <<box[1], r[2], box[3], box[2]>> >> ELSE <<>>)
    \o (IF box[4] < r[4] THEN << <<box[1], box[4], box[3], r[4]>> >> ELSE <<>>)

VerticalStrips_noSides(r, box) ==
    (IF box[2] > r[2] THEN << <<r[1], r[2], r[3], box[2]>> >> ELSE <<>>)
    \o (IF box[4] < r[4] THEN << <<r[1], box[4], r[3], r[4]>> >> ELSE <<>>)

\* the rectangles appended for one box of a left or right margin r
VerticalStrips(r, box) ==
    (IF box[2] > r[2] THEN << <<r[1], r[2], r[3], box[2]>> >> ELSE <<>>)
    \o (IF box[4] < r[4] THEN << <<r[1], box[4], r[3], r[4]>> >> ELSE <<>>)
    \o (IF box[1] > r[1] THEN << <<r[1], box[2], box[1], box[4]>> >> ELSE <<>>)
    \o (IF box[3] < r[3] THEN << <<box[3], box[2], r[3], box[4]>> >> ELSE <<>>)

\* the rectangles one margin region contributes to rects_to_clean
RegionRects(name, r, protected) ==
    LET region_protected == RegionProtected(protected, r)
    IN  IF region_protected = <<>> THEN <<r>>
        ELSE IF name = "top" \/ name = "bottom"
        THEN Concat([i \in DOMAIN region_protected |->
                        HorizontalStrips(r, region_protected[i])])
        ELSE Concat([i \in DOMAIN region_protected |->
                        VerticalStrips(r, region_protected[i])])

RectsToClean(regions, protected) ==
    Concat([i \in DOMAIN regions |-> RegionRects(regions[i][1], regions[i][2], protected)])

Modified_byMargins(regions, rects) == Len(regions) > 0

\* the flag returned with the list
Modified(regions, rects) == Len(rects) > 0

\* the whole function: the values it computes on the way and what it returns
find_areas_to_clean(image, ocr_available) ==
    LET bounds == find_text_content_bounds(image)
        regions == MarginRegions(bounds, image.width, image.height)
        protected == ProtectedBoxes(image, regions, ocr_available)
        rects == RectsToClean(regions, protected)
    IN  [bounds |-> bounds, margin_regions |-> regions, protected_boxes |-> protected,
         rects_to_clean |-> rects, modified |-> Modified(regions, rects)]

(***************************************************************************)
(* Page rasters the model runs on                                          *)
(***************************************************************************)
\* horizontal projections of a w-wide, h-high box: ruled lines of text, a
\* solid patch of ink, a sprinkle of specks
Ruled(w, h) == [i \in 1..h |-> IF (i % 10) \in 1..6 THEN (8 * w) \div 10 ELSE 0]
Solid(w, h) == [i \in 1..h |-> w]
Specks(w, h) == [i \in 1..h |-> w \div 20]

Contour(x, y, w, h, proj) == [x |-> x, y |-> y, w |-> w, h |-> h, h_proj |-> proj]

TextCentred == Contour(30, 30, 100, 100, Ruled(100, 100))
TextFullPage == Contour(13, 13, 134, 134, Ruled(134, 134))
TextOffCentre == Contour(60, 30, 90, 100, Ruled(90, 100))
TextBelowTop == Contour(0, 30, 160, 130, Ruled(160, 130))
TextSmallPage == Contour(5, 5, 60, 40, Ruled(60, 40))
Stain == Contour(5, 5, 30, 30, Solid(30, 30))
SpeckCloud == Contour(40, 40, 80, 80, Specks(80, 80))
ScanLine == Contour(10, 80, 140, 4, Solid(140, 4))

ContourLists ==
    { <<>>, <<TextCentred>>, <<TextFullPage>>, <<TextOffCentre>>, <<TextBelowTop>>,
      <<TextSmallPage>>, <<Stain>>, <<SpeckCloud>>, <<ScanLine, TextCentred>>,
      <<TextCentred, Stain>>, <<TextSmallPage, TextOffCentre>> }

Sizes == { <<40, 40>>, <<80, 120>>, <<100, 100>>, <<101, 100>>, <<101, 101>>, <<160, 160>> }

Shape(x, y, w, h) == [x |-> x, y |-> y, w |-> w, h |-> h]

BlobShapes ==
    { Shape(20, 6, 14, 10), Shape(70, 6, 14, 10), Shape(4, 60, 12, 14),
      Shape(60, 144, 40, 12), Shape(5, 5, 12, 12), Shape(15, 60, 20, 12),
      Shape(5, 5, 150, 12) }

OcrAnswers ==
    { [raises |-> TRUE, text |-> <<>>],
      [raises |-> FALSE, text |-> <<"space", "alnum", "punct">>],
      [raises |-> FALSE, text |-> <<"punct", "space">>],
      [raises |-> FALSE, text |-> <<"space">>] }

Blob(s, density, ocr) ==
    [x |-> s.x, y |-> s.y, w |-> s.w, h |-> s.h, density |-> density, ocr |-> ocr]

BlobPool ==
    {Blob(s, 30, o) : s \in BlobShapes, o \in OcrAnswers}
    \cup {Blob(Shape(20, 6, 14, 10), d, [raises |-> TRUE, text |-> <<>>]) : d \in {2, 80}}

SameShape(a, b) == a.x = b.x /\ a.y = b.y /\ a.w = b.w /\ a.h = b.h

RECURSIVE InOrder(_)
\* the blobs of a set as a list, left to right and top to bottom
InOrder(S) ==
    IF S = {} THEN <<>>
    ELSE LET first == CHOOSE b \in S : \A c \in S : 1000 * b.x + b.y <= 1000 * c.x + c.y
         IN  <<first>> \o InOrder(S \ {first})

RECURSIVE BlobSets(_)
\* the sets of at most n blobs of the pool, no two of the same shape
BlobSets(n) ==
    IF n = 0 THEN {{}}
    ELSE LET smaller == BlobSets(n - 1)
         IN  smaller \cup {T \cup {b} : T \in smaller,
                              b \in BlobPool}

BlobLists ==
    {InOrder(T) : T \in {U \in BlobSets(MaxBlobs) :
                            \A a, b \in U : SameShape(a, b) => a = b}}

Fits(items, width, height) ==
    \A i \in DOMAIN items :
        items[i].x + items[i].w <= width /\ items[i].y + items[i].h <= height

Images ==
    {[width |-> sz[1], height |-> sz[2], contours |-> cs, blobs |-> bs] :
        sz \in Sizes, cs \in ContourLists, bs \in BlobLists}

Rasters == {im \in Images : Fits(im.contours, im.width, im.height)
                            /\ Fits(im.blobs, im.width, im.height)}

NoResult == [bounds |-> <<>>, margin_regions |-> <<>>, protected_boxes |-> <<>>,
             rects_to_clean |-> <<>>, modified |-> FALSE]

(***************************************************************************)
(* Page space.  A length of page space is held as a whole number of units  *)
(* of 1/(2*dpi) point, in which x/scale (scale = dpi/72) and the halvings  *)
(* of center_page_content are exact.                                       *)
(***************************************************************************)
\* v / scale, v in pixels
DivScale(v, dpi) == (v * POINTS_PER_INCH * 2 * dpi) \div dpi

\* n points
Points(n, dpi) == n * 2 * dpi

\* a rectangle of image space in page space: (x0/scale, y0/scale, x1/scale, y1/scale)
PageRect(r, dpi) ==
    <<DivScale(r[1], dpi), DivScale(r[2], dpi), DivScale(r[3], dpi), DivScale(r[4], dpi)>>

\* page.rect of a page that renders to a width x height raster at this dpi
page_rect(img, dpi) == <<0, 0, DivScale(img.width, dpi), DivScale(img.height, dpi)>>

\* the pixel a page-space coordinate is rendered at
ToPixel(u, dpi) == (u * dpi) \div (POINTS_PER_INCH * 2 * dpi)

(***************************************************************************)
(* center_page_content, the part that decides and places                   *)
(***************************************************************************)
\* <<shift_x, shift_y>> = page centre minus content centre
Shift(content_bounds, img, dpi) ==
    LET c == PageRect(content_bounds, dpi)
        p == page_rect(img, dpi)
    IN  <<p[3] \div 2 - (c[1] + c[3]) \div 2, p[4] \div 2 - (c[2] + c[4]) \div 2>>

AlreadyCentred_either(content_bounds, img, dpi) ==
    LET shift == Shift(content_bounds, img, dpi)
    IN  Abs(shift[1]) < Points(CENTER_TOLERANCE, dpi)
        \/ Abs(shift[2]) < Points(CENTER_TOLERANCE, dpi)

\* the test that makes center_page_content return False
AlreadyCentred(content_bounds, img, dpi) ==
    LET shift == Shift(content_bounds, img, dpi)
    IN  Abs(shift[1]) < Points(CENTER_TOLERANCE, dpi)
        /\ Abs(shift[2]) < Points(CENTER_TOLERANCE, dpi)

\* the rectangle the content is re-inserted in
new_rect(content_bounds, img, dpi) ==
    LET c == PageRect(content_bounds, dpi)
        p == page_rect(img, dpi)
        content_width == c[3] - c[1]
        content_height == c[4] - c[2]
        new_x0 == (p[3] - content_width) \div 2
        new_y0 == (p[4] - content_height) \div 2
    IN  <<new_x0, new_y0, new_x0 + content_width, new_y0 + content_height>>

(***************************************************************************)
(* What a page renders to after an edit                                    *)
(***************************************************************************)
BoxOf(item) == <<item.x, item.y, item.x + item.w, item.y + item.h>>

\* apply_white_rects: the ink under a white rectangle is gone
Whitened(img, rects) ==
    LET kept(item) == \A i \in DOMAIN rects : ~Overlaps(BoxOf(item), rects[i])
    IN  [img EXCEPT !.contours = SelectSeq(@, kept), !.blobs = SelectSeq(@, kept)]

\* the page filled white and the clip of the content bounds inserted at
\* new_rect: the ink inside the bounds moves with the clip, the rest is gone
Recentred(img, content_bounds, target, dpi) ==
    LET dx == ToPixel(target[1], dpi) - content_bounds[1]
        dy == ToPixel(target[2], dpi) - content_bounds[2]
        inClip(item) == Inside(BoxOf(item), content_bounds)
        moved(items) == [i \in DOMAIN items |->
                            [items[i] EXCEPT !.x = @ + dx, !.y = @ + dy]]
    IN  [img EXCEPT !.contours = moved(SelectSeq(@, inClip)),
                    !.blobs = moved(SelectSeq(@, inClip))]

(***************************************************************************)
(* Documents the pipeline runs on                                          *)
(***************************************************************************)
Raster(w, h, cs, bs) == [width |-> w, height |-> h, contours |-> cs, blobs |-> bs]

PageNumber(x, y) ==
    Blob(Shape(x, y, 14, 10), 30, [raises |-> FALSE, text |-> <<"space", "alnum", "punct">>])

SamplePages ==
    { Raster(160, 160, <<>>, <<>>),
      Raster(160, 160, <<TextFullPage>>, <<>>),
      Raster(160, 160, <<TextCentred>>, <<PageNumber(20, 6), PageNumber(70, 6)>>),
      Raster(160, 160, <<TextOffCentre, Stain>>, <<>>),
      Raster(160, 160, <<TextBelowTop>>,
             <<Blob(Shape(5, 5, 150, 12), 30, [raises |-> TRUE, text |-> <<>>])>>) }

\* a page of a document: what it renders to at the run's dpi, the white
\* rectangles drawn on it and the rectangles images were inserted in
Page(img) == [img |-> img, fills |-> <<>>, inserted |-> <<>>]

RECURSIVE Documents(_)
\* the documents of at most n pages
Documents(n) ==
    IF n = 0 THEN {<<>>}
    ELSE LET shorter == Documents(n - 1)
         IN  shorter \cup {Append(d, Page(img)) : d \in shorter, img \in SamplePages}

File(d) == [exists |-> TRUE, pages |-> d]
NoFile == [exists |-> FALSE, pages |-> <<>>]
NoDoc == <<>>
NoImage == Raster(0, 0, <<>>, <<>>)
DPIs == {72, 200}

(***************************************************************************)
(* State                                                                   *)
(***************************************************************************)
VARIABLES
    OCR_AVAILABLE,   \* the module-level flag set at import
    image,           \* the raster under analysis
    result,          \* what find_areas_to_clean computed for image
    pc,              \* the position of the running function
    files,           \* files[0]: the input of the first run; files[r]: the output of run r
    run,             \* the number of the running call of process_pdf
    dpi,             \* its dpi argument
    center_content,  \* its center_content argument
    progress_callback, \* whether a progress_callback was passed
    doc,             \* the open document
    opened,          \* the document as fitz.open returned it
    page_num,        \* the loop variable
    edited_pages,    \* the list of edited page numbers
    progress,        \* the calls of progress_callback, as <<current, total>>
    saves,           \* how many times this call saved the document
    roi_gray,        \* the region is_text_block is called on
    min_line_count,  \* its min_line_count argument
    is_text,         \* what it returned: <<>> before the call
    selected_file,   \* app: selected_file["path"]
    output_field,    \* app: whether output_field.value is non-empty
    is_processing,   \* app: is_processing["value"]
    process_btn,     \* app: process_btn.disabled, and what the window shows of it
    handlers,        \* app: the position of each running start_processing
    threads          \* app: the position of each process_thread

block == <<roi_gray, min_line_count, is_text>>

app == <<selected_file, output_field, is_processing, process_btn, handlers, threads>>

vars == <<OCR_AVAILABLE, image, result, pc, files, run, dpi, center_content, progress_callback, doc,
          opened, page_num, edited_pages, progress, saves, block, app>>

pipeline == <<files, run, dpi, center_content, progress_callback, doc, opened, page_num, edited_pages,
              progress, saves>>

(***************************************************************************)
(* analyze_image on one raster                                             *)
(***************************************************************************)
\* is_text_block is not being called on its own
NoBlock ==
    /\ roi_gray = [height |-> 0, width |-> 0, h_proj |-> <<>>]
    /\ min_line_count = 0
    /\ is_text = <<>>

\* the app is not running
NoApp ==
    /\ selected_file = "none"
    /\ output_field = FALSE
    /\ is_processing = FALSE
    /\ process_btn = [disabled |-> FALSE, shown |-> FALSE]
    /\ handlers = <<>>
    /\ threads = <<>>

InitImage ==
    /\ NoBlock /\ NoApp
    /\ OCR_AVAILABLE \in BOOLEAN
    /\ image \in Rasters
    /\ result = NoResult
    /\ pc = "analyze"
    /\ files = [r \in 0..MaxRuns |-> NoFile]
    /\ run = 0
    /\ dpi = 200
    /\ center_content = TRUE
    /\ progress_callback = FALSE
    /\ doc = NoDoc
    /\ opened = NoDoc
    /\ page_num = 0
    /\ edited_pages = <<>>
    /\ progress = <<>>
    /\ saves = 0

analyze_image ==
    /\ pc = "analyze"
    /\ run = 0
    /\ result' = find_areas_to_clean(image, OCR_AVAILABLE)
    /\ pc' = "analyzed"
    /\ UNCHANGED <<block, app, OCR_AVAILABLE, image>>
    /\ UNCHANGED pipeline

NextImage == analyze_image

SpecImage == InitImage /\ [][NextImage]_vars

(***************************************************************************)
(* process_pdf.  Each call that can raise either completes or raises; an   *)
(* exception leaves process_pdf at once (pc = "raised").                   *)
(***************************************************************************)
Init ==
    /\ NoBlock /\ NoApp
    /\ OCR_AVAILABLE \in BOOLEAN
    /\ image = NoImage
    /\ result = NoResult
    /\ pc = "open"
    /\ files \in {[r \in 0..MaxRuns |-> IF r = 0 THEN f ELSE NoFile] :
                     f \in {File(d) : d \in Documents(MaxPages)} \cup {NoFile}}
    /\ run = 1
    /\ dpi \in DPIs
    /\ center_content \in BOOLEAN
    /\ progress_callback \in BOOLEAN
    /\ doc = NoDoc
    /\ opened = NoDoc
    /\ page_num = 0
    /\ edited_pages = <<>>
    /\ progress = <<>>
    /\ saves = 0

Raise ==
    /\ pc' = "raised"
    /\ UNCHANGED <<block, app, OCR_AVAILABLE, image, result, files, run, dpi, center_content, progress_callback, doc,
                   opened, page_num, edited_pages, progress, saves>>

\* doc = fitz.open(input_path); total_pages = len(doc); edited_pages = []
Open ==
    /\ pc = "open"
    /\ IF ~files[run - 1].exists
       THEN Raise
       ELSE /\ doc' = files[run - 1].pages
            /\ opened' = files[run - 1].pages
            /\ pc' = "loop"
            /\ UNCHANGED <<block, app, OCR_AVAILABLE, image, result, files, run, dpi,
                           center_content, progress_callback, page_num, edited_pages, progress, saves>>

total_pages == Len(doc)

\* image = page_to_image(page, dpi)
Render ==
    /\ pc = "loop"
    /\ page_num < total_pages
    /\ \/ /\ image' = doc[page_num + 1].img
          /\ pc' = "analyze"
          /\ UNCHANGED <<block, app, OCR_AVAILABLE, result, files, run, dpi, center_content, progress_callback, doc,
                         opened, page_num, edited_pages, progress, saves>>
       \/ Raise

ShouldEdit_always(r) == TRUE

\* the test of the if statement after analyze_func
ShouldEdit(r) == r.modified /\ r.rects_to_clean # <<>>

\* areas_to_clean, was_modified = analyze_func(image), and the if
Analyze ==
    /\ pc = "analyze"
    /\ run > 0
    /\ \/ /\ result' = find_areas_to_clean(image, OCR_AVAILABLE)
          /\ pc' = IF ShouldEdit(result') THEN "edit" ELSE "progress"
          /\ UNCHANGED <<block, app, OCR_AVAILABLE, image, files, run, dpi, center_content, progress_callback, doc,
                         opened, page_num, edited_pages, progress, saves>>
       \/ Raise

\* edited_pages.append(page_num + 1); apply_white_rects(page, page_rects)
Whiten ==
    /\ pc = "edit"
    /\ edited_pages' = Append(edited_pages, page_num + 1)
    /\ \/ /\ doc' = [doc EXCEPT ![page_num + 1] =
                        [@ EXCEPT !.fills = @ \o [i \in DOMAIN result.rects_to_clean |->
                                                PageRect(result.rects_to_clean[i], dpi)],
                                  !.img = Whitened(@, result.rects_to_clean)]]
          /\ pc' = IF center_content THEN "center" ELSE "progress"
       \/ /\ pc' = "raised"
          /\ doc' = doc
    /\ UNCHANGED <<block, app, OCR_AVAILABLE, image, result, files, run, dpi, center_content, progress_callback,
                   opened, page_num, progress, saves>>

\* content_bounds = find_text_content_bounds(image);
\* center_page_content(doc, page_num, content_bounds, dpi)
Center ==
    /\ pc = "center"
    /\ LET content_bounds == find_text_content_bounds(image)
           target == new_rect(content_bounds, image, dpi)
       IN  \/ /\ AlreadyCentred(content_bounds, image, dpi)
              /\ pc' = "progress"
              /\ doc' = doc
           \/ /\ ~AlreadyCentred(content_bounds, image, dpi)
              /\ doc' = [doc EXCEPT ![page_num + 1] =
                            [@ EXCEPT !.fills = Append(@, page_rect(image, dpi)),
                                      !.inserted = Append(@, target),
                                      !.img = Recentred(@, content_bounds, target, dpi)]]
              /\ pc' = "progress"
           \/ /\ ~AlreadyCentred(content_bounds, image, dpi)
              /\ pc' = "raised"
              /\ doc' = doc
    /\ UNCHANGED <<block, app, OCR_AVAILABLE, image, result, files, run, dpi, center_content, progress_callback,
                   opened, page_num, edited_pages, progress, saves>>

Progress_zeroBased ==
    /\ pc = "progress"
    /\ progress' = IF progress_callback
                   THEN Append(progress, <<page_num, total_pages>>)
                   ELSE progress
    /\ page_num' = page_num + 1
    /\ pc' = "loop"
    /\ UNCHANGED <<block, app, OCR_AVAILABLE, image, result, files, run, dpi, center_content,
                   progress_callback, doc, opened, edited_pages, saves>>

\* if progress_callback: progress_callback(page_num + 1, total_pages), and the
\* next iteration of the loop
Progress ==
    /\ pc = "progress"
    /\ progress' = IF progress_callback
                   THEN Append(progress, <<page_num + 1, total_pages>>)
                   ELSE progress
    /\ page_num' = page_num + 1
    /\ pc' = "loop"
    /\ UNCHANGED <<block, app, OCR_AVAILABLE, image, result, files, run, dpi, center_content,
                   progress_callback, doc, opened, edited_pages, saves>>

Save_insideLoop ==
    /\ pc = "loop"
    /\ files' = [files EXCEPT ![run] = File(doc)]
    /\ saves' = saves + 1
    /\ pc' = "returned"
    /\ UNCHANGED <<block, app, OCR_AVAILABLE, image, result, run, dpi, center_content, progress_callback, doc,
                   opened, page_num, edited_pages, progress>>

\* doc.save(output_path), doc.close() and the return
Save ==
    /\ pc = "loop"
    /\ page_num = total_pages
    /\ \/ /\ files' = [files EXCEPT ![run] = File(doc)]
          /\ saves' = saves + 1
          /\ pc' = "returned"
          /\ UNCHANGED <<block, app, OCR_AVAILABLE, image, result, run, dpi, center_content, progress_callback, doc,
                         opened, page_num, edited_pages, progress>>
       \/ Raise

\* what process_pdf returns
returned == <<total_pages, Len(edited_pages), edited_pages>>

\* process_pdf called again, on the file the last call saved, at the same dpi
Rerun ==
    /\ pc = "returned"
    /\ run < MaxRuns
    /\ run' = run + 1
    /\ pc' = "open"
    /\ doc' = NoDoc
    /\ opened' = NoDoc
    /\ page_num' = 0
    /\ edited_pages' = <<>>
    /\ progress' = <<>>
    /\ saves' = 0
    /\ image' = NoImage
    /\ result' = NoResult
    /\ UNCHANGED <<block, app, OCR_AVAILABLE, files, dpi, center_content, progress_callback>>

Next == Open \/ Render \/ Analyze \/ Whiten \/ Center \/ Progress \/ Save \/ Rerun

Spec == Init /\ [][Next]_vars

(***************************************************************************)
(* Claims about find_areas_to_clean and what it calls (SpecImage)          *)
(***************************************************************************)
Analyzed == pc = "analyzed"

\* C1: no clean rectangle returned by find_areas_to_clean overlaps a
\* protected box with positive area, however many boxes a margin holds.
C1_CleanAvoidsProtected ==
    Analyzed =>
        \A i \in DOMAIN result.rects_to_clean, j \in DOMAIN result.protected_boxes :
            ~Overlaps(result.rects_to_clean[i], result.protected_boxes[j])

\* C2: the content bounds lie inside [0, width] x [0, height], on the
\* fallback path and on the union-and-pad path, for images of every size.
C2_BoundsInsideImage ==
    Analyzed =>
        /\ 0 <= result.bounds[1] /\ result.bounds[1] <= image.width
        /\ 0 <= result.bounds[3] /\ result.bounds[3] <= image.width
        /\ 0 <= result.bounds[2] /\ result.bounds[2] <= image.height
        /\ 0 <= result.bounds[4] /\ result.bounds[4] <= image.height

NoWideMargin(b, width, height) ==
    /\ b[2] <= MARGIN_TOLERANCE
    /\ b[4] >= height - MARGIN_TOLERANCE
    /\ b[1] <= MARGIN_TOLERANCE
    /\ b[3] >= width - MARGIN_TOLERANCE

\* C4: modified is true exactly when the returned list is non-empty, and
\* content bounds that leave no margin wider than 5 px on any side give an
\* empty list and modified = false.
C4_ModifiedIffRects ==
    Analyzed =>
        /\ result.modified = (result.rects_to_clean # <<>>)
        /\ NoWideMargin(result.bounds, image.width, image.height) =>
              result.rects_to_clean = <<>> /\ result.modified = FALSE

C4_Witness ==
    /\ Analyzed
    /\ image.contours # <<>>
    /\ NoWideMargin(result.bounds, image.width, image.height)
    /\ result.modified = FALSE

Blank(im) == im.contours = <<>> /\ im.blobs = <<>>

\* C5: a blank image gets the fallback bounds (50, 50, w-50, h-50), its four
\* margins top, bottom, left, right, each returned whole as one clean
\* rectangle, and modified = true.
C5_BlankImage ==
    (Analyzed /\ Blank(image)) =>
        LET w == image.width
            h == image.height
        IN  /\ result.bounds = <<50, 50, w - 50, h - 50>>
            /\ [i \in DOMAIN result.margin_regions |-> result.margin_regions[i][1]]
                  = <<"top", "bottom", "left", "right">>
            /\ result.rects_to_clean =
                  << <<0, 0, w, 50>>, <<0, h - 50, w, h>>,
                     <<0, 50, 50, h - 50>>, <<w - 50, 50, w, h - 50>> >>
            /\ result.modified = TRUE

C5_Witness == Analyzed /\ Blank(image) /\ image.width = 160 /\ result.modified

\* what margin region i of the result contributed to the returned list
Contribution(i) ==
    RegionRects(result.margin_regions[i][1], result.margin_regions[i][2],
                result.protected_boxes)

Unprotected(r) ==
    \A j \in DOMAIN result.protected_boxes : ~Inside(result.protected_boxes[j], r)

\* C6: every clean rectangle lies inside the margin region it was derived
\* from, and a margin region holding no protected box contributes exactly one
\* clean rectangle, the region itself.
C6_RectsInsideTheirMargin ==
    Analyzed =>
        /\ result.rects_to_clean =
              Concat([i \in DOMAIN result.margin_regions |-> Contribution(i)])
        /\ \A i \in DOMAIN result.margin_regions :
              LET r == result.margin_regions[i][2]
              IN  /\ \A k \in DOMAIN Contribution(i) : Inside(Contribution(i)[k], r)
                  /\ Unprotected(r) => Contribution(i) = <<r>>

C6_Witness ==
    /\ Analyzed
    /\ \E i, j \in DOMAIN result.margin_regions :
          /\ Unprotected(result.margin_regions[i][2])
          /\ ~Unprotected(result.margin_regions[j][2])
          /\ Len(Contribution(j)) >= 3

\* the candidates of a margin region that pass the geometric and density
\* filters and on which the OCR cannot answer
FailOpenCandidates(region) ==
    IF region[3] - region[1] < MIN_REGION_SIDE \/ region[4] - region[2] < MIN_REGION_SIDE
    THEN {}
    ELSE {c \in Range(MarginContours(image, region)) :
             CandidateFilters(c) /\ (~OCR_AVAILABLE \/ c.ocr.raises)}

\* C7: when the OCR engine is unavailable or the recognition call raises,
\* has_arabic_or_number answers true, so every margin candidate that passed
\* the geometric and density filters is kept as a protected box.
C7_FailOpenOcr ==
    Analyzed =>
        \A i \in DOMAIN result.margin_regions :
            \A c \in FailOpenCandidates(result.margin_regions[i][2]) :
                /\ has_arabic_or_number(OCR_AVAILABLE, c.ocr)
                /\ PaddedBox(c, result.margin_regions[i][2])
                      \in Range(result.protected_boxes)

C7_Witness ==
    /\ Analyzed
    /\ OCR_AVAILABLE
    /\ \E i \in DOMAIN result.margin_regions :
          \E c \in FailOpenCandidates(result.margin_regions[i][2]) : c.ocr.raises
    /\ result.protected_boxes # <<>>

(***************************************************************************)
(* Claims about process_pdf and center_page_content (Spec)                 *)
(***************************************************************************)
Running == run >= 1 /\ pc # "open"

\* the pages whose iteration of the loop is over
Finished(k) == k <= page_num \/ (k = page_num + 1 /\ pc = "progress")

\* a margin of the page, wider than 5 px, that no ink of the page touches
BlankWideMargin(im) ==
    LET b == find_text_content_bounds(im)
        w == im.width
        h == im.height
        blank(r) == \A i \in DOMAIN im.blobs : ~Overlaps(BoxOf(im.blobs[i]), r)
    IN  \/ b[2] > 5 /\ blank(<<0, 0, w, b[2]>>)
        \/ b[4] < h - 5 /\ blank(<<0, b[4], w, h>>)
        \/ b[1] > 5 /\ blank(<<0, b[2], b[1], b[4]>>)
        \/ b[3] < w - 5 /\ blank(<<b[3], b[2], w, b[4]>>)

NoMarginOver5(im) ==
    LET b == find_text_content_bounds(im)
    IN  b[2] <= 5 /\ b[4] >= im.height - 5 /\ b[1] <= 5 /\ b[3] >= im.width - 5

RerunReturned == pc = "returned" /\ run >= 2

\* C3 as stated: process_pdf run on the document a previous run produced, at
\* the same dpi, edits no page (editedCount = 0).
C3_RerunEditsNothing == RerunReturned => returned[2] = 0

\* C3 as amended: on its own output process_pdf leaves out of the edited list
\* the pages whose content bounds leave no margin wider than 5 px, and edits
\* again every page that is blank or still has a blank margin wider than 5 px.
C3_RerunEditsPagesWithMargins ==
    RerunReturned =>
        \A k \in DOMAIN opened :
            /\ NoMarginOver5(opened[k].img) => k \notin Range(edited_pages)
            /\ (Blank(opened[k].img) \/ BlankWideMargin(opened[k].img))
                  => k \in Range(edited_pages)

C3_Witness ==
    /\ RerunReturned
    /\ \E k \in DOMAIN opened :
          /\ Blank(opened[k].img) \/ BlankWideMargin(opened[k].img)
          /\ opened[k].fills # <<>>
          /\ k \in Range(edited_pages)
    /\ \E k \in DOMAIN opened :
          NoMarginOver5(opened[k].img) /\ k \notin Range(edited_pages)

\* C8: a page whose analysis returns modified = false or an empty list is
\* left untouched (no white fill, no recentering, not in the edited list), and
\* a page number is in the edited list only if white fills were applied.
C8_UneditedPagesUntouched ==
    Running =>
        /\ \A k \in DOMAIN doc :
              k \notin Range(edited_pages) => doc[k] = opened[k]
        /\ (pc = "progress" /\ (~result.modified \/ result.rects_to_clean = <<>>)) =>
              /\ page_num + 1 \notin Range(edited_pages)
              /\ doc[page_num + 1] = opened[page_num + 1]
        /\ \A k \in DOMAIN doc :
              (Finished(k) /\ k \in Range(edited_pages)) =>
                  Len(doc[k].fills) > Len(opened[k].fills)

C8_Witness ==
    /\ pc = "returned"
    /\ \E k \in DOMAIN doc : k \notin Range(edited_pages) /\ doc[k] = opened[k]
    /\ \E k \in DOMAIN doc : k \in Range(edited_pages) /\ doc[k].fills # <<>>

\* the page being edited has been through center_page_content
Centred == pc = "progress" /\ center_content /\ (page_num + 1) \in Range(edited_pages)

\* |shift_x| < 5 and |shift_y| < 5 points, shift = page centre - content
\* centre, for content bounds b in pixels on a w x h raster
SmallShift(b, w, h) ==
    /\ 72 * Abs(w - (b[1] + b[3])) < 2 * 5 * dpi
    /\ 72 * Abs(h - (b[2] + b[4])) < 2 * 5 * dpi

\* C9: center_page_content applies no recentering when |shift_x| < 5 and
\* |shift_y| < 5 points; otherwise it re-inserts the content in a rectangle of
\* the content's width and height whose centre is the page centre within 5
\* points.
C9_Centering ==
    Centred =>
        LET k == page_num + 1
            b == result.bounds
            now == doc[k]
            before == opened[k]
            r == now.inserted[Len(now.inserted)]
        IN  IF SmallShift(b, image.width, image.height)
            THEN /\ now.inserted = before.inserted
                 /\ Len(now.fills) = Len(before.fills) + Len(result.rects_to_clean)
            ELSE /\ Len(now.inserted) = Len(before.inserted) + 1
                 /\ Len(now.fills) = Len(before.fills) + Len(result.rects_to_clean) + 1
                 \* widths, heights and centres in units of 1/(2*dpi) point
                 /\ r[3] - r[1] = 144 * (b[3] - b[1])
                 /\ r[4] - r[2] = 144 * (b[4] - b[2])
                 /\ Abs((r[1] + r[3]) - 144 * image.width) < 2 * 5 * 2 * dpi
                 /\ Abs((r[2] + r[4]) - 144 * image.height) < 2 * 5 * 2 * dpi

C9_Witness ==
    /\ Centred
    /\ ~SmallShift(result.bounds, image.width, image.height)
    /\ 72 * Abs(image.height - (result.bounds[2] + result.bounds[4])) < 2 * 5 * dpi
    /\ doc[page_num + 1].inserted # <<>>

\* C10: if opening, rendering, analysis, whitening or recentering raises,
\* the error leaves process_pdf and the output is never saved; the output is
\* saved exactly once, and only after every page has been processed.
C10_AllOrNothingSave ==
    /\ saves <= 1
    /\ pc = "raised" => (saves = 0 /\ ~files[run].exists /\ ~ENABLED Next)
    /\ saves = 1 => (pc = "returned" /\ page_num = Len(opened))
    /\ (run >= 1 /\ pc = "returned") => (saves = 1 /\ files[run] = File(doc))
    /\ (run >= 1 /\ pc \notin {"returned", "raised"}) => ~files[run].exists

C10_Witness ==
    /\ pc = "raised"
    /\ page_num >= 1
    /\ edited_pages # <<>>
    /\ Len(doc[1].fills) > 0
    /\ ~files[run].exists

(***************************************************************************)
(* Claims about the order of the page loop (Spec)                          *)
(***************************************************************************)
\* the calls (1, total), ..., (n, total)
CallsUpTo(n, total) == [i \in 1..n |-> <<i, total>>]

\* pages are taken one at a time, in increasing order
OnePageAtATime ==
    Running =>
        /\ page_num <= Len(opened)
        \* a page after the current one has not been touched yet
        /\ \A k \in DOMAIN doc : k > page_num + 1 => doc[k] = opened[k]
        \* the page under analysis is the current one, as it was opened
        /\ pc \in {"analyze", "edit", "center", "progress"} =>
              /\ page_num < Len(opened)
              /\ image = opened[page_num + 1].img
        /\ pc = "analyze" => doc[page_num + 1] = opened[page_num + 1]
        \* one call per finished page, in order
        /\ progress_callback => progress = CallsUpTo(page_num, Len(opened))
        \* the save comes after the call (total, total)
        /\ pc = "returned" => page_num = Len(opened)

\* a step of a call changes no page but the current one, moves to the next
\* page only by the step that reports progress, and that step edits nothing
StepsStayOnPage ==
    (Running /\ pc' # "open") =>
        /\ \A k \in DOMAIN doc : k # page_num + 1 => doc'[k] = doc[k]
        /\ page_num' # page_num =>
              /\ pc = "progress"
              /\ page_num' = page_num + 1
              /\ doc' = doc
        /\ (pc = "loop" /\ pc' = "analyze") =>
              /\ image' = doc[page_num + 1].img
              /\ doc' = doc

\* C11: pages are handled one after the other in increasing order, page k
\* being rendered, analyzed and edited to the end before page k+1 is rendered;
\* the progress callback is called once per page with (k, total), k = 1..total
\* in order, each call after the edits of page k, and the save comes after the
\* call (total, total).
C11_SequentialPages == [](OnePageAtATime) /\ [][StepsStayOnPage]_vars

C11_Witness ==
    /\ pc = "returned"
    /\ progress_callback
    /\ progress = <<<<1, 2>>, <<2, 2>>>>
    /\ edited_pages = <<1, 2>>
    /\ doc[1].inserted # <<>>

(***************************************************************************)
(* Claims about find_text_content_bounds and is_text_block (SpecImage)     *)
(***************************************************************************)
NonEmpty(r) == r[1] < r[3] /\ r[2] < r[4]

AtLeast100 == image.width >= 100 /\ image.height >= 100

\* C12 as stated: for an image of at least 100 x 100 pixels the content
\* bounds are a non-empty rectangle, on the fallback path and on the
\* detected-content path.
C12_NonEmptyFrom100 == (Analyzed /\ AtLeast100) => NonEmpty(result.bounds)

\* C12 as amended: for an image of at least 100 x 100 pixels the content
\* bounds are non-empty on the detected-content path, and on the fallback path
\* they are non-empty exactly when the image is wider and higher than 100.
C12_NonEmptyAbove100 ==
    (Analyzed /\ AtLeast100) =>
        IF \E i \in DOMAIN image.contours : ValidContour(image.contours[i])
        THEN NonEmpty(result.bounds)
        ELSE NonEmpty(result.bounds) <=> (image.width > 100 /\ image.height > 100)

C12_Witness ==
    /\ Analyzed
    /\ image.width = 101 /\ image.height = 101
    /\ image.contours = <<>>
    /\ NonEmpty(result.bounds)

\* the connected components that pass the candidate filters, as boxes
Survivors ==
    {<<c.x, c.y, c.x + c.w, c.y + c.h>> :
        c \in {d \in Range(image.contours) :
                 /\ d.w * d.h >= 2000
                 /\ d.w >= 50 /\ d.h >= 20
                 /\ 10 * d.w >= d.h /\ d.w <= 30 * d.h
                 /\ is_text_block([height |-> d.h, width |-> d.w, h_proj |-> d.h_proj], 1)}}

\* r is the smallest rectangle that holds every box of S grown by pad on
\* each side, cut to the image
IsClampedHull(r, S, pad, width, height) ==
    LET grown == {<<b[1] - pad, b[2] - pad, b[3] + pad, b[4] + pad>> : b \in S}
    IN  /\ \E g \in grown : r[1] = Max(0, g[1])
        /\ \E g \in grown : r[2] = Max(0, g[2])
        /\ \E g \in grown : r[3] = Min(width, g[3])
        /\ \E g \in grown : r[4] = Min(height, g[4])
        /\ \A g \in grown :
              /\ r[1] <= Max(0, g[1]) /\ r[2] <= Max(0, g[2])
              /\ r[3] >= Min(width, g[3]) /\ r[4] >= Min(height, g[4])

MaxLineCount == 3

\* k lines of text, two rows of ink each, two blank rows between them
Lines(k, w, h) == [i \in 1..h |-> IF i <= 4 * k /\ ((i - 1) % 4) < 2 THEN w ELSE 0]
\* ink on the first and on the last row only
Edges(w, h) == [i \in 1..h |-> IF i \in {1, h} THEN w ELSE 0]
\* every row holds exactly a tenth of the width in ink, or one pixel more
Tenth(w, h) == [i \in 1..h |-> w \div 10]
OverTenth(w, h) == [i \in 1..h |-> w \div 10 + 1]

Projections(w, h) ==
    {Lines(k, w, h) : k \in 0..(MaxLineCount + 1)}
        \cup {Edges(w, h), Tenth(w, h), OverTenth(w, h), Solid(w, h)}

Regions ==
    {[height |-> h, width |-> w, h_proj |-> p] :
        <<h, w, p>> \in UNION {{<<h, w, p>> : p \in Projections(w, h)} :
                                  <<h, w>> \in {0, 19, 20, 24} \X {0, 49, 50, 60}}}

MinLineCounts == (0 - 1)..(MaxLineCount + 1)

InitBlock ==
    /\ roi_gray \in Regions
    /\ min_line_count \in MinLineCounts
    /\ is_text = <<>>
    /\ NoApp
    /\ OCR_AVAILABLE = FALSE
    /\ image = NoImage
    /\ result = NoResult
    /\ pc = "is_text_block"
    /\ files = [r \in 0..MaxRuns |-> NoFile]
    /\ run = 0
    /\ dpi = 200
    /\ center_content = TRUE
    /\ progress_callback = FALSE
    /\ doc = NoDoc
    /\ opened = NoDoc
    /\ page_num = 0
    /\ edited_pages = <<>>
    /\ progress = <<>>
    /\ saves = 0

TextBlockCall ==
    /\ pc = "is_text_block"
    /\ is_text = <<>>
    /\ is_text' = <<is_text_block(roi_gray, min_line_count)>>
    /\ UNCHANGED <<roi_gray, min_line_count, app, OCR_AVAILABLE, image, result, pc>>
    /\ UNCHANGED pipeline

NextBlock == TextBlockCall

SpecBlock == InitBlock /\ [][NextBlock]_vars

\* a row is textual when its ink-pixel count exceeds 10% of the region width
Textual(r, i) == i \in 1..r.height /\ 10 * r.h_proj[i] > r.width

\* the maximal runs of consecutive textual rows, as <<first row, last row>>
MaximalRuns(r) ==
    {<<a, b>> \in (1..r.height) \X (1..r.height) :
        /\ a <= b
        /\ \A i \in a..b : Textual(r, i)
        /\ ~Textual(r, a - 1)
        /\ ~Textual(r, b + 1)}

\* C14: is_text_block(region, min_lines) is true exactly when the region is
\* at least 20 high and 50 wide and has at least min_lines maximal runs of
\* consecutive textual rows; it is false for every region lower than 20 or
\* narrower than 50, whatever its pixels and whatever min_lines.
C14_IsTextBlock ==
    is_text # <<>> =>
        /\ is_text[1] <=> /\ roi_gray.height >= 20
                          /\ roi_gray.width >= 50
                          /\ Cardinality(MaximalRuns(roi_gray)) >= min_line_count
        /\ (roi_gray.height < 20 \/ roi_gray.width < 50) => ~is_text[1]

C14_Witness ==
    /\ is_text = <<TRUE>>
    /\ roi_gray.height = 20 /\ roi_gray.width = 50
    /\ min_line_count = 3
    /\ Cardinality(MaximalRuns(roi_gray)) = 3

(***************************************************************************)
(* Claims about the strips around protected boxes (SpecImage)              *)
(***************************************************************************)
Area(r) == (r[3] - r[1]) * (r[4] - r[2])

RECURSIVE SumAreas(_)
SumAreas(rects) == IF rects = <<>> THEN 0 ELSE Area(Head(rects)) + SumAreas(Tail(rects))

\* the protected boxes the code finds inside margin region i
BoxesIn(i) ==
    SelectSeq(result.protected_boxes,
              LAMBDA box : Inside(box, result.margin_regions[i][2]))

\* rects tile the part of region r outside box: they have positive area, lie
\* in r, overlap neither each other nor the box, and their areas add up to
\* the area of r less the area of the box
TilesAround(rects, r, box) ==
    /\ \A k \in DOMAIN rects : Area(rects[k]) > 0 /\ rects[k][1] < rects[k][3]
    /\ \A k \in DOMAIN rects : Inside(rects[k], r) /\ ~Overlaps(rects[k], box)
    /\ \A k, l \in DOMAIN rects : k # l => ~Overlaps(rects[k], rects[l])
    /\ SumAreas(rects) = Area(r) - Area(box)

\* C15: for a margin region, horizontal or vertical, holding exactly one
\* protected box, the clean rectangles emitted for it are non-degenerate,
\* pairwise non-overlapping, disjoint from the box, and their union is
\* exactly the margin region minus the box.
C15_OneBoxStrips ==
    Analyzed =>
        \A i \in DOMAIN result.margin_regions :
            Len(BoxesIn(i)) = 1 =>
                TilesAround(Contribution(i), result.margin_regions[i][2], BoxesIn(i)[1])

C15_Witness ==
    /\ Analyzed
    /\ \E i, j \in DOMAIN result.margin_regions :
          /\ result.margin_regions[i][1] = "top"
          /\ Len(BoxesIn(i)) = 1 /\ Len(Contribution(i)) = 4
          /\ result.margin_regions[j][1] = "left"
          /\ Len(BoxesIn(j)) = 1 /\ Len(Contribution(j)) = 3

\* the pixel whose top left corner is (x, y)
Pixel(x, y) == <<x, y, x + 1, y + 1>>

\* the x (n = 1) or y (n = 2) coordinates at which region r, a box of boxes
\* or a rectangle of rects starts or ends: every pixel of r shares its boxes
\* and rectangles with a pixel whose corner has such coordinates
GridLines(n, r, boxes, rects) ==
    {r[n], r[n + 2]}
        \cup {boxes[k][n] : k \in DOMAIN boxes} \cup {boxes[k][n + 2] : k \in DOMAIN boxes}
        \cup {rects[k][n] : k \in DOMAIN rects} \cup {rects[k][n + 2] : k \in DOMAIN rects}

\* C16: for every margin region, whatever the number of protected boxes
\* inside it, every point of the margin outside all of that margin's
\* protected boxes is covered by a clean rectangle of find_areas_to_clean.
C16_CompleteCleaning ==
    Analyzed =>
        \A i \in DOMAIN result.margin_regions :
            LET r == result.margin_regions[i][2]
                boxes == BoxesIn(i)
                rects == result.rects_to_clean
            IN  \A x \in GridLines(1, r, boxes, rects), y \in GridLines(2, r, boxes, rects) :
                    (/\ Inside(Pixel(x, y), r)
                     /\ \A k \in DOMAIN boxes : ~Overlaps(Pixel(x, y), boxes[k]))
                        => \E k \in DOMAIN rects : Inside(Pixel(x, y), rects[k])

C16_Witness ==
    /\ Analyzed
    /\ \E i, j \in DOMAIN result.margin_regions :
          /\ result.margin_regions[i][1] \in {"top", "bottom"}
          /\ Len(BoxesIn(i)) = 2
          /\ BoxesIn(i)[1] # BoxesIn(i)[2]
          /\ result.margin_regions[j][1] \in {"left", "right"}
          /\ Len(BoxesIn(j)) = 0

\* the boxes find_text_in_margin returns for margin region i
Detected(i) == find_text_in_margin(image, result.margin_regions[i][2], OCR_AVAILABLE)

\* C17: every protected box find_text_in_margin returns for a margin region
\* lies within that region, so the containment filter keeps it, and a margin
\* in which a box was confirmed is never emitted as the single whole-margin
\* rectangle.
C17_DetectedBoxesKept ==
    Analyzed =>
        \A i \in DOMAIN result.margin_regions :
            LET r == result.margin_regions[i][2]
            IN  /\ \A k \in DOMAIN Detected(i) :
                      /\ Inside(Detected(i)[k], r)
                      /\ Detected(i)[k] \in Range(BoxesIn(i))
                /\ Detected(i) # <<>> => Contribution(i) # <<r>>

C17_Witness ==
    /\ Analyzed
    /\ \E i \in DOMAIN result.margin_regions :
          /\ Len(Detected(i)) = 2
          /\ \E k \in DOMAIN Detected(i) :
                Detected(i)[k][1] = result.margin_regions[i][2][1]
          /\ Contribution(i) # <<result.margin_regions[i][2]>>

\* the content bounds are an ordered rectangle inside the image
ValidBounds ==
    /\ 0 <= result.bounds[1] /\ result.bounds[1] <= result.bounds[3]
    /\ result.bounds[3] <= image.width
    /\ 0 <= result.bounds[2] /\ result.bounds[2] <= result.bounds[4]
    /\ result.bounds[4] <= image.height

\* C18: when the content bounds are an ordered rectangle inside the image,
\* the margin regions are pairwise non-overlapping and neither a margin
\* region nor a clean rectangle overlaps the content bounds with positive
\* area.
C18_ContentNeverWhitened ==
    (Analyzed /\ ValidBounds) =>
        /\ \A i, j \in DOMAIN result.margin_regions :
              i # j => ~Overlaps(result.margin_regions[i][2], result.margin_regions[j][2])
        /\ \A i \in DOMAIN result.margin_regions :
              ~Overlaps(result.margin_regions[i][2], result.bounds)
        /\ \A k \in DOMAIN result.rects_to_clean :
              ~Overlaps(result.rects_to_clean[k], result.bounds)

C18_Witness ==
    /\ Analyzed /\ ValidBounds
    /\ NonEmpty(result.bounds)
    /\ Len(result.margin_regions) = 4
    /\ Len(result.protected_boxes) = 2
    /\ Len(result.rects_to_clean) > 4

(***************************************************************************)
(* The desktop app: the process button, start_processing and               *)
(* process_thread.  The window runs each click handler on a thread of its  *)
(* own, so the statements of two handlers and of process_thread interleave.*)
(* A click reaches start_processing only while the window shows the button *)
(* enabled; the window learns of process_btn.disabled at page.update().    *)
(***************************************************************************)
MaxClicks == 2
MaxThreads == 2

InitApp ==
    /\ NoBlock
    /\ selected_file = "none"
    /\ output_field = FALSE
    /\ is_processing = FALSE
    /\ process_btn = [disabled |-> FALSE, shown |-> FALSE]
    /\ handlers = [h \in 1..MaxClicks |-> "idle"]
    /\ threads = [t \in 1..MaxThreads |-> "none"]
    /\ OCR_AVAILABLE = FALSE
    /\ image = NoImage
    /\ result = NoResult
    /\ pc = "app"
    /\ files = [r \in 0..MaxRuns |-> NoFile]
    /\ run = 0
    /\ dpi = 200
    /\ center_content = TRUE
    /\ progress_callback = TRUE
    /\ doc = NoDoc
    /\ opened = NoDoc
    /\ page_num = 0
    /\ edited_pages = <<>>
    /\ progress = <<>>
    /\ saves = 0

rest == <<block, OCR_AVAILABLE, image, result, pc, pipeline>>

\* the file picker returns a file: its path is selected and an output path
\* is generated
pick_file_result ==
    /\ selected_file' = "present"
    /\ output_field' = TRUE
    /\ UNCHANGED <<is_processing, process_btn, handlers, threads, rest>>

\* a path is typed into the input field: it names a file or it does not
update_input ==
    /\ \E path \in {"present", "missing"} :
          /\ selected_file' = path
          /\ output_field' = IF path = "present" THEN TRUE ELSE output_field
    /\ UNCHANGED <<is_processing, process_btn, handlers, threads, rest>>

\* the output field is edited: filled in or emptied
EditOutput ==
    /\ \E filled \in BOOLEAN : output_field' = filled
    /\ UNCHANGED <<selected_file, is_processing, process_btn, handlers, threads, rest>>

\* a click on the button starts start_processing, which returns at once
\* when is_processing is set
Click(h) ==
    /\ handlers[h] = "idle"
    /\ ~process_btn.shown
    /\ handlers' = [handlers EXCEPT ![h] = IF is_processing THEN "idle" ELSE "validate"]
    /\ UNCHANGED <<selected_file, output_field, is_processing, process_btn, threads, rest>>

\* the three checks of the paths, each of which returns
Validate(h) ==
    /\ handlers[h] = "validate"
    /\ handlers' = [handlers EXCEPT ![h] =
                        IF selected_file = "none" THEN "idle"
                        ELSE IF ~output_field THEN "idle"
                        ELSE IF selected_file = "missing" THEN "idle"
                        ELSE "set"]
    /\ UNCHANGED <<selected_file, output_field, is_processing, process_btn, threads, rest>>

\* is_processing["value"] = True; process_btn.disabled = True; page.update()
SetProcessing(h) ==
    /\ handlers[h] = "set"
    /\ is_processing' = TRUE
    /\ process_btn' = [disabled |-> TRUE, shown |-> TRUE]
    /\ handlers' = [handlers EXCEPT ![h] = "start"]
    /\ UNCHANGED <<selected_file, output_field, threads, rest>>

\* threading.Thread(target=process_thread, daemon=True).start()
StartThread(h) ==
    /\ handlers[h] = "start"
    /\ \E t \in 1..MaxThreads :
          /\ threads[t] = "none"
          /\ threads' = [threads EXCEPT ![t] = "process_pdf"]
    /\ handlers' = [handlers EXCEPT ![h] = "idle"]
    /\ UNCHANGED <<selected_file, output_field, is_processing, process_btn, rest>>

\* the try block of process_thread: process_pdf returns or raises
RunProcessPdf(t) ==
    /\ threads[t] = "process_pdf"
    /\ \E outcome \in {"success", "error"} : threads' = [threads EXCEPT ![t] = outcome]
    /\ UNCHANGED <<selected_file, output_field, is_processing, process_btn, handlers, rest>>

\* finally: is_processing["value"] = False; process_btn.disabled = False
Finally(t) ==
    /\ threads[t] \in {"success", "error"}
    /\ is_processing' = FALSE
    /\ process_btn' = [process_btn EXCEPT !.disabled = FALSE]
    /\ threads' = [threads EXCEPT ![t] = "update"]
    /\ UNCHANGED <<selected_file, output_field, handlers, rest>>

\* the page.update() that ends process_thread
PageUpdate(t) ==
    /\ threads[t] = "update"
    /\ process_btn' = [process_btn EXCEPT !.shown = process_btn.disabled]
    /\ threads' = [threads EXCEPT ![t] = "none"]
    /\ UNCHANGED <<selected_file, output_field, is_processing, handlers, rest>>

NextApp ==
    \/ pick_file_result
    \/ update_input
    \/ EditOutput
    \/ \E h \in 1..MaxClicks :
          Click(h) \/ Validate(h) \/ SetProcessing(h) \/ StartThread(h)
    \/ \E t \in 1..MaxThreads : RunProcessPdf(t) \/ Finally(t) \/ PageUpdate(t)

SpecApp == InitApp /\ [][NextApp]_vars

\* the process_thread threads that have been started and have not ended
RunningThreads == {t \in DOMAIN threads : threads[t] # "none"}

AtMostOneThread == Cardinality(RunningThreads) <= 1

\* is_processing goes from true to false only in the finally block of a
\* running thread
OnlyThreadClears ==
    (is_processing /\ ~is_processing') =>
        \E t \in DOMAIN threads :
            threads[t] \in {"success", "error"} /\ threads'[t] = "update"

\* C19: at most one processing thread runs at any time, under every
\* interleaving of clicks on the process button and process_thread, and
\* is_processing is set back to false only by the running thread when it ends,
\* after success or after an error.
C19_OneProcessingThread == [](AtMostOneThread) /\ [][OnlyThreadClears]_vars

====
